---- MODULE Spec2Model ----
(***************************************************************************)
(* Model of src/main.rs: a terminal dashboard made of two StatefulList     *)
(* cursors (the primary list and the tab strip), the run_app render/input  *)
(* loop and the terminal set-up and tear-down of main.                     *)
(*                                                                         *)
(* Spec     is the whole program, main() from its first statement to the   *)
(*          process exit, one action per statement that can block or fail. *)
(* InputSpec is the same program reading a bounded sequence of events that *)
(*          arrive at the terminal, kept in arrival order.                 *)
(* ListSpec applies StatefulList::next / previous / unselect to arbitrary  *)
(*          non-empty lists and records the cursors they produce.          *)
(***************************************************************************)
EXTENDS Integers, Sequences, FiniteSets, TLC

\* Longest item sequence tried in ListSpec.
MaxLen == 3
\* Longest sequence of list operations tried in ListSpec.
MaxOps == 4
\* Most events that arrive at the terminal in InputSpec.
MaxInput == 2

\* Duration::from_millis(250), in milliseconds.
TickRate == 250

\* Option<T>: None is the empty sequence, Some(x) a one-element sequence.
None == <<>>
Some(x) == <<x>>

\* Times (ms) a draw may take, or a poll may wait before an event arrives.
Delays == {0, 100, TickRate}

\* ---------------------------------------------------------------------
\* StatefulList<T>

with_items(its) == [state |-> None, items |-> its]

\* Mutant of next: `>` for `>=`, so the last index is stepped past.
next_past_end(self) ==
    LET i == IF self.state # None
             THEN IF self.state[1] > Len(self.items) - 1
                  THEN 0
                  ELSE self.state[1] + 1
             ELSE 0
    IN  [self EXCEPT !.state = Some(i)]

next(self) ==
    LET i == IF self.state # None
             THEN IF self.state[1] >= Len(self.items) - 1
                  THEN 0
                  ELSE self.state[1] + 1
             ELSE 0
    IN  [self EXCEPT !.state = Some(i)]

\* Mutant of previous: index 0 does not wrap to the last index.
previous_no_wrap(self) ==
    LET i == IF self.state # None
             THEN IF self.state[1] = 0
                  THEN 0
                  ELSE self.state[1] - 1
             ELSE 0
    IN  [self EXCEPT !.state = Some(i)]

\* Mutant of previous: an absent cursor goes to the last index.
previous_absent_to_last(self) ==
    LET i == IF self.state # None
             THEN IF self.state[1] = 0
                  THEN Len(self.items) - 1
                  ELSE self.state[1] - 1
             ELSE Len(self.items) - 1
    IN  [self EXCEPT !.state = Some(i)]

previous(self) ==
    LET i == IF self.state # None
             THEN IF self.state[1] = 0
                  THEN Len(self.items) - 1
                  ELSE self.state[1] - 1
             ELSE 0
    IN  [self EXCEPT !.state = Some(i)]

unselect(self) == [self EXCEPT !.state = None]

\* ---------------------------------------------------------------------
\* App

SeedItems == << <<"Item0", 1>>, <<"Item1", 2>>, <<"Item2", 3>> >>
SeedTitles == << <<"Test0", 1>>, <<"Test1", 2>>, <<"Test2", 3>>, <<"Test3", 4>> >>
AltItems == << <<"test", 1>>, <<"Testing", 2>> >>

App_new == [items |-> with_items(SeedItems), titles |-> with_items(SeedTitles)]

\* Mutant of on_tick: the tick moves the primary cursor.
on_tick_moves(a) == [a EXCEPT !.items = next(a.items)]

on_tick(a) == a

\* ---------------------------------------------------------------------
\* Events delivered by crossterm: key presses (by key code) and the rest.

MappedKeys == {"q", "Down", "Up", "j", "k", "Tab", "u", "m", "Left", "Right"}
OtherKeys == {"x", "Enter"}
KeyCodes == MappedKeys \cup OtherKeys
NonKeyEvents == {"Mouse", "Resize"}
Events == KeyCodes \cup NonKeyEvents

\* Mutant of match_key: 'm' replaces the items and keeps the old cursor.
match_key_keep_cursor(a, code) ==
    CASE code \in {"Down", "j", "Tab"} -> [a EXCEPT !.items = next(a.items)]
      [] code \in {"Up", "k"} -> [a EXCEPT !.items = previous(a.items)]
      [] code = "u" -> [a EXCEPT !.items = unselect(a.items)]
      [] code = "m" -> [a EXCEPT !.items.items = AltItems]
      [] code = "Left" -> [a EXCEPT !.titles = previous(a.titles)]
      [] code = "Right" -> [a EXCEPT !.titles = next(a.titles)]
      [] OTHER -> a

\* Mutant of match_key: 'm' re-selects the first row after replacing.
match_key_reselect(a, code) ==
    CASE code \in {"Down", "j", "Tab"} -> [a EXCEPT !.items = next(a.items)]
      [] code \in {"Up", "k"} -> [a EXCEPT !.items = previous(a.items)]
      [] code = "u" -> [a EXCEPT !.items = unselect(a.items)]
      [] code = "m" -> [a EXCEPT !.items = next(with_items(AltItems))]
      [] code = "Left" -> [a EXCEPT !.titles = previous(a.titles)]
      [] code = "Right" -> [a EXCEPT !.titles = next(a.titles)]
      [] OTHER -> a

\* Mutant of match_key: Left and Right drive the primary list.
match_key_wrong_list(a, code) ==
    CASE code \in {"Down", "j", "Tab"} -> [a EXCEPT !.items = next(a.items)]
      [] code \in {"Up", "k"} -> [a EXCEPT !.items = previous(a.items)]
      [] code = "u" -> [a EXCEPT !.items = unselect(a.items)]
      [] code = "m" -> [a EXCEPT !.items = with_items(AltItems)]
      [] code = "Left" -> [a EXCEPT !.items = previous(a.items)]
      [] code = "Right" -> [a EXCEPT !.items = next(a.items)]
      [] OTHER -> a

\* Mutant of match_key: 'm' replaces the items with an empty vector.
match_key_clear(a, code) ==
    CASE code \in {"Down", "j", "Tab"} -> [a EXCEPT !.items = next(a.items)]
      [] code \in {"Up", "k"} -> [a EXCEPT !.items = previous(a.items)]
      [] code = "u" -> [a EXCEPT !.items = unselect(a.items)]
      [] code = "m" -> [a EXCEPT !.items = with_items(<<>>)]
      [] code = "Left" -> [a EXCEPT !.titles = previous(a.titles)]
      [] code = "Right" -> [a EXCEPT !.titles = next(a.titles)]
      [] OTHER -> a

\* Mutant of match_key: 'm' toggles between the alternate and the seed items.
match_key_toggle(a, code) ==
    CASE code \in {"Down", "j", "Tab"} -> [a EXCEPT !.items = next(a.items)]
      [] code \in {"Up", "k"} -> [a EXCEPT !.items = previous(a.items)]
      [] code = "u" -> [a EXCEPT !.items = unselect(a.items)]
      [] code = "m" -> [a EXCEPT !.items =
                            IF a.items.items = AltItems
                            THEN with_items(SeedItems)
                            ELSE with_items(AltItems)]
      [] code = "Left" -> [a EXCEPT !.titles = previous(a.titles)]
      [] code = "Right" -> [a EXCEPT !.titles = next(a.titles)]
      [] OTHER -> a

\* The arms of `match key.code` other than 'q', which returns.
match_key(a, code) ==
    CASE code \in {"Down", "j", "Tab"} -> [a EXCEPT !.items = next(a.items)]
      [] code \in {"Up", "k"} -> [a EXCEPT !.items = previous(a.items)]
      [] code = "u" -> [a EXCEPT !.items = unselect(a.items)]
      [] code = "m" -> [a EXCEPT !.items = with_items(AltItems)]
      [] code = "Left" -> [a EXCEPT !.titles = previous(a.titles)]
      [] code = "Right" -> [a EXCEPT !.titles = next(a.titles)]
      [] OTHER -> a

\* Mutant of ui: the emphasized tab is taken from the primary list's cursor.
ui_tab_from_items(a) ==
    [tabs |-> [n \in 1..Len(a.titles.items) |-> a.titles.items[n][1]],
     tab_selected |-> IF a.items.state # None THEN a.items.state[1] ELSE 0,
     rows |-> [n \in 1..Len(a.items.items) |-> a.items.items[n][1]],
     row_selected |-> a.items.state]

\* What ui() puts on the screen: the tab labels and the emphasized tab, the
\* list rows and the emphasized row (None: no row).
ui(a) ==
    [tabs |-> [n \in 1..Len(a.titles.items) |-> a.titles.items[n][1]],
     tab_selected |-> IF a.titles.state # None THEN a.titles.state[1] ELSE 0,
     rows |-> [n \in 1..Len(a.items.items) |-> a.items.items[n][1]],
     row_selected |-> a.items.state]

\* Mutant of checked_timeout: a full interval when the subtraction fails.
checked_timeout_full(el) == IF TickRate >= el THEN TickRate - el ELSE TickRate

\* timeout = tick_rate.checked_sub(last_tick.elapsed()).unwrap_or(0)
checked_timeout(el) == IF TickRate >= el THEN TickRate - el ELSE 0

\* ---------------------------------------------------------------------
\* State

VARIABLES
    pc,        \* the statement of main / run_app about to execute
    app,       \* run_app's `app`
    key,       \* the last event returned by event::read() ("none": none yet)
    res,       \* the value run_app returned: "none" while it has not returned
    elapsed,   \* last_tick.elapsed(), in ms
    timeout,   \* run_app's `timeout`, in ms
    frame,     \* the last frame drawn on the terminal, None before the first
    term,      \* terminal modes: raw, alternate screen, mouse capture, cursor
    diag,      \* where a diagnostic was printed: None, Some("stdout" | "stderr")
    status,    \* the exit status of the process, None while it runs
    failed,    \* the terminal I/O calls that returned an error, in order
    ticked,    \* on_tick() has been invoked since the last draw
    since_tick,\* ms since the last on_tick() call, or since run_app started
    arrivals,  \* InputSpec: the events that reached the terminal, in order
    taken,     \* InputSpec: how many of them event::read() has returned
    dispatched,\* InputSpec: the events run_app has handled, in order
    list,      \* ListSpec: the StatefulList under test
    ops,       \* ListSpec: the methods called on it so far
    hist       \* ListSpec: its cursor at the start and after each call

vars == <<pc, app, key, res, elapsed, timeout, frame, term, diag, status,
          failed, ticked, since_tick, arrivals, taken, dispatched,
          list, ops, hist>>

progvars == <<pc, app, key, res, elapsed, timeout, frame, term, diag, status,
              failed, ticked, since_tick>>
listvars == <<list, ops, hist>>
inputvars == <<arrivals, taken, dispatched>>

LoopPcs == {"draw", "timeout", "poll", "read", "tick"}

ProgInit ==
    /\ pc = "enable_raw"
    /\ app = App_new
    /\ key = "none"
    /\ res = "none"
    /\ elapsed = 0
    /\ timeout = 0
    /\ frame = None
    /\ term = [raw |-> FALSE, alt |-> FALSE, mouse |-> FALSE, cursor |-> TRUE]
    /\ diag = None
    /\ status = None
    /\ failed = <<>>
    /\ ticked = FALSE
    /\ since_tick = 0

ListIdle ==
    /\ list = with_items(<<>>)
    /\ ops = <<>>
    /\ hist = <<>>

InputIdle ==
    /\ arrivals = <<>>
    /\ taken = 0
    /\ dispatched = <<>>

Init == ProgInit /\ ListIdle /\ InputIdle

\* ---------------------------------------------------------------------
\* main: `?` on an Err returns it from main; the runtime prints it on stderr
\* and the process exits with status 1.

ReturnErr ==
    /\ pc' = "exited"
    /\ diag' = Some("stderr")
    /\ status' = Some(1)

\* enable_raw_mode()?
EnableRaw ==
    /\ pc = "enable_raw"
    /\ \/ /\ term' = [term EXCEPT !.raw = TRUE]
          /\ pc' = "enter_alt"
          /\ UNCHANGED <<diag, status, failed>>
       \/ /\ ReturnErr
          /\ failed' = Append(failed, "enable_raw")
          /\ UNCHANGED term
    /\ UNCHANGED <<app, key, res, elapsed, timeout, frame, ticked, since_tick,
                   listvars, inputvars>>

\* execute!(stdout, EnterAlternateScreen, EnableMouseCapture)?
EnterAlt ==
    /\ pc = "enter_alt"
    /\ \/ /\ term' = [term EXCEPT !.alt = TRUE, !.mouse = TRUE]
          /\ pc' = "terminal_new"
          /\ UNCHANGED <<diag, status, failed>>
       \/ /\ \E a \in BOOLEAN : term' = [term EXCEPT !.alt = a]
          /\ ReturnErr
          /\ failed' = Append(failed, "enter_alt")
    /\ UNCHANGED <<app, key, res, elapsed, timeout, frame, ticked, since_tick,
                   listvars, inputvars>>

\* Terminal::new(backend)?
TerminalNew ==
    /\ pc = "terminal_new"
    /\ \/ /\ pc' = "run_app"
          /\ UNCHANGED <<diag, status, failed>>
       \/ /\ ReturnErr
          /\ failed' = Append(failed, "terminal_new")
    /\ UNCHANGED <<app, key, res, elapsed, timeout, frame, term,
                   ticked, since_tick, listvars, inputvars>>

\* Mutant of RunAppEntry: the start-up app.items.next() is missing.
RunAppEntry_no_next ==
    /\ pc = "run_app"
    /\ app' = App_new
    /\ elapsed' = 0
    /\ since_tick' = 0
    /\ pc' = "draw"
    /\ UNCHANGED <<key, res, timeout, frame, term, diag, status, failed, ticked,
                   listvars, inputvars>>

\* App::new(); run_app entry: last_tick = Instant::now(); app.items.next()
RunAppEntry ==
    /\ pc = "run_app"
    /\ app' = [App_new EXCEPT !.items = next(App_new.items)]
    /\ elapsed' = 0
    /\ since_tick' = 0
    /\ pc' = "draw"
    /\ UNCHANGED <<key, res, timeout, frame, term, diag, status, failed, ticked,
                   listvars, inputvars>>

\* Mutant of Draw: a failed draw is ignored and the loop goes on.
Draw_ignore_error ==
    /\ pc = "draw"
    /\ \E d \in Delays :
          /\ elapsed' = elapsed + d
          /\ since_tick' = since_tick + d
          /\ \/ /\ frame' = Some(ui(app))
                /\ term' = [term EXCEPT !.cursor = FALSE]
                /\ pc' = "timeout"
                /\ UNCHANGED <<res, failed>>
             \/ /\ pc' = "timeout"
                /\ failed' = Append(failed, "draw")
                /\ UNCHANGED <<res, frame, term>>
    /\ ticked' = FALSE
    /\ UNCHANGED <<app, key, timeout, diag, status, listvars, inputvars>>

\* Mutant of Draw: rendering selects tab 0 in the state when no tab is selected.
Draw_selects_tab ==
    /\ pc = "draw"
    /\ \E d \in Delays :
          /\ elapsed' = elapsed + d
          /\ since_tick' = since_tick + d
          /\ \/ /\ frame' = Some(ui(app))
                /\ app' = IF app.titles.state = None
                          THEN [app EXCEPT !.titles.state = Some(0)]
                          ELSE app
                /\ term' = [term EXCEPT !.cursor = FALSE]
                /\ pc' = "timeout"
                /\ UNCHANGED <<res, failed>>
             \/ /\ res' = "Err"
                /\ pc' = "disable_raw"
                /\ failed' = Append(failed, "draw")
                /\ UNCHANGED <<app, frame, term>>
    /\ ticked' = FALSE
    /\ UNCHANGED <<key, timeout, diag, status, listvars, inputvars>>

\* terminal.draw(|f| ui(f, &mut app))?   (draw hides the terminal cursor)
Draw ==
    /\ pc = "draw"
    /\ \E d \in Delays :
          /\ elapsed' = elapsed + d
          /\ since_tick' = since_tick + d
          /\ \/ /\ frame' = Some(ui(app))
                /\ term' = [term EXCEPT !.cursor = FALSE]
                /\ pc' = "timeout"
                /\ UNCHANGED <<res, failed>>
             \/ /\ res' = "Err"
                /\ pc' = "disable_raw"
                /\ failed' = Append(failed, "draw")
                /\ UNCHANGED <<frame, term>>
    /\ ticked' = FALSE
    /\ UNCHANGED <<app, key, timeout, diag, status, listvars, inputvars>>

\* let timeout = tick_rate.checked_sub(last_tick.elapsed()).unwrap_or(0)
Timeout ==
    /\ pc = "timeout"
    /\ timeout' = checked_timeout(elapsed)
    /\ pc' = "poll"
    /\ UNCHANGED <<app, key, res, elapsed, frame, term, diag, status,
                   failed, ticked, since_tick, listvars, inputvars>>

\* crossterm::event::poll(timeout)?: true as soon as an event is available,
\* false once `timeout` has passed without one.
Poll ==
    /\ pc = "poll"
    /\ \/ \E w \in {d \in Delays \cup {timeout} : d <= timeout} :
             /\ elapsed' = elapsed + w
             /\ since_tick' = since_tick + w
             /\ pc' = "read"
             /\ UNCHANGED <<res, failed>>
       \/ /\ elapsed' = elapsed + timeout
          /\ since_tick' = since_tick + timeout
          /\ pc' = "tick"
          /\ UNCHANGED <<res, failed>>
       \/ /\ res' = "Err"
          /\ pc' = "disable_raw"
          /\ failed' = Append(failed, "poll")
          /\ UNCHANGED <<elapsed, since_tick>>
    /\ UNCHANGED <<app, key, timeout, frame, term, diag, status, ticked,
                   listvars, inputvars>>

\* Mutant of Read: the 'q' arm is missing, so 'q' is ignored like any other key.
Read_no_quit ==
    /\ pc = "read"
    /\ \/ \E e \in Events :
             /\ key' = e
             /\ UNCHANGED failed
             /\ app' = IF e \in KeyCodes THEN match_key(app, e) ELSE app
             /\ pc' = "tick"
             /\ UNCHANGED res
       \/ /\ res' = "Err"
          /\ pc' = "disable_raw"
          /\ failed' = Append(failed, "read")
          /\ UNCHANGED <<app, key>>
    /\ UNCHANGED <<elapsed, timeout, frame, term, diag, status,
                   ticked, since_tick, listvars, inputvars>>

\* Mutant of Read: after an event the loop starts over without the tick check.
Read_skip_tick ==
    /\ pc = "read"
    /\ \/ \E e \in Events :
             /\ key' = e
             /\ UNCHANGED failed
             /\ IF e = "q"
                THEN /\ res' = "Ok"
                     /\ pc' = "disable_raw"
                     /\ UNCHANGED app
                ELSE /\ app' = IF e \in KeyCodes THEN match_key(app, e) ELSE app
                     /\ pc' = "draw"
                     /\ UNCHANGED res
       \/ /\ res' = "Err"
          /\ pc' = "disable_raw"
          /\ failed' = Append(failed, "read")
          /\ UNCHANGED <<app, key>>
    /\ UNCHANGED <<elapsed, timeout, frame, term, diag, status,
                   ticked, since_tick, listvars, inputvars>>

\* if let Event::Key(key) = event::read()? { match key.code { ... } }
Read ==
    /\ pc = "read"
    /\ \/ \E e \in Events :
             /\ key' = e
             /\ UNCHANGED failed
             /\ IF e = "q"
                THEN /\ res' = "Ok"
                     /\ pc' = "disable_raw"
                     /\ UNCHANGED app
                ELSE /\ app' = IF e \in KeyCodes THEN match_key(app, e) ELSE app
                     /\ pc' = "tick"
                     /\ UNCHANGED res
       \/ /\ res' = "Err"
          /\ pc' = "disable_raw"
          /\ failed' = Append(failed, "read")
          /\ UNCHANGED <<app, key>>
    /\ UNCHANGED <<elapsed, timeout, frame, term, diag, status,
                   ticked, since_tick, listvars, inputvars>>

\* Mutant of Tick: last_tick is not reset after on_tick().
Tick_no_reset ==
    /\ pc = "tick"
    /\ elapsed >= TickRate
    /\ app' = on_tick(app)
    /\ ticked' = TRUE
    /\ since_tick' = 0
    /\ pc' = "draw"
    /\ UNCHANGED <<key, res, elapsed, timeout, frame, term, diag, status, failed,
                   listvars, inputvars>>

\* if last_tick.elapsed() >= tick_rate { app.on_tick(); last_tick = now }
Tick ==
    /\ pc = "tick"
    /\ elapsed >= TickRate
    /\ app' = on_tick(app)
    /\ elapsed' = 0
    /\ ticked' = TRUE
    /\ since_tick' = 0
    /\ pc' = "draw"
    /\ UNCHANGED <<key, res, timeout, frame, term, diag, status, failed,
                   listvars, inputvars>>

SkipTick ==
    /\ pc = "tick"
    /\ ~(elapsed >= TickRate)
    /\ pc' = "draw"
    /\ UNCHANGED <<app, key, res, elapsed, timeout, frame, term, diag, status,
                   failed, ticked, since_tick,
                   listvars, inputvars>>

\* disable_raw_mode()?
DisableRaw ==
    /\ pc = "disable_raw"
    /\ \/ /\ term' = [term EXCEPT !.raw = FALSE]
          /\ pc' = "leave_alt"
          /\ UNCHANGED <<diag, status, failed>>
       \/ /\ ReturnErr
          /\ failed' = Append(failed, "disable_raw")
          /\ UNCHANGED term
    /\ UNCHANGED <<app, key, res, elapsed, timeout, frame, ticked, since_tick,
                   listvars, inputvars>>

\* execute!(terminal.backend_mut(), LeaveAlternateScreen, DisableMouseCapture)?
LeaveAlt ==
    /\ pc = "leave_alt"
    /\ \/ /\ term' = [term EXCEPT !.alt = FALSE, !.mouse = FALSE]
          /\ pc' = "show_cursor"
          /\ UNCHANGED <<diag, status, failed>>
       \/ /\ \E a \in {term.alt, FALSE} : term' = [term EXCEPT !.alt = a]
          /\ ReturnErr
          /\ failed' = Append(failed, "leave_alt")
    /\ UNCHANGED <<app, key, res, elapsed, timeout, frame, ticked, since_tick,
                   listvars, inputvars>>

\* terminal.show_cursor()?
ShowCursor ==
    /\ pc = "show_cursor"
    /\ \/ /\ term' = [term EXCEPT !.cursor = TRUE]
          /\ pc' = "print"
          /\ UNCHANGED <<diag, status, failed>>
       \/ /\ ReturnErr
          /\ failed' = Append(failed, "show_cursor")
          /\ UNCHANGED term
    /\ UNCHANGED <<app, key, res, elapsed, timeout, frame, ticked, since_tick,
                   listvars, inputvars>>

\* if let Err(err) = res { println!("{:?}", err) }  Ok(())
PrintRes ==
    /\ pc = "print"
    /\ diag' = IF res = "Err" THEN Some("stdout") ELSE diag
    /\ status' = Some(0)
    /\ pc' = "exited"
    /\ UNCHANGED <<app, key, res, elapsed, timeout, frame, term, failed, ticked, since_tick,
                   listvars, inputvars>>

Next ==
    \/ EnableRaw
    \/ EnterAlt
    \/ TerminalNew
    \/ RunAppEntry
    \/ Draw
    \/ Timeout
    \/ Poll
    \/ Read
    \/ Tick
    \/ SkipTick
    \/ DisableRaw
    \/ LeaveAlt
    \/ ShowCursor
    \/ PrintRes

Spec == Init /\ [][Next]_vars

\* ---------------------------------------------------------------------
\* InputSpec: the same program with the terminal's input made explicit. Up to
\* MaxInput events arrive, at any time; crossterm keeps them in arrival
\* order, poll() tells whether one is waiting and read() returns the oldest.

Arrive ==
    /\ pc # "exited"
    /\ Len(arrivals) < MaxInput
    /\ \E e \in Events : arrivals' = Append(arrivals, e)
    /\ UNCHANGED <<progvars, taken, dispatched, listvars>>

\* crossterm::event::poll(timeout)?: true only if an event is waiting, false
\* only if none is when the timeout is over.
PollInput ==
    /\ Poll
    /\ pc' = "read" => taken < Len(arrivals)
    /\ pc' = "tick" => taken = Len(arrivals)

\* Mutant of ReadInput: the waiting events are drained and only the newest
\* one is handled.
ReadInput_newest ==
    /\ pc = "read"
    /\ \/ /\ taken < Len(arrivals)
          /\ LET e == arrivals[Len(arrivals)] IN
             /\ taken' = Len(arrivals)
             /\ dispatched' = Append(dispatched, e)
             /\ key' = e
             /\ UNCHANGED failed
             /\ IF e = "q"
                THEN /\ res' = "Ok"
                     /\ pc' = "disable_raw"
                     /\ UNCHANGED app
                ELSE /\ app' = IF e \in KeyCodes THEN match_key(app, e) ELSE app
                     /\ pc' = "tick"
                     /\ UNCHANGED res
       \/ /\ res' = "Err"
          /\ pc' = "disable_raw"
          /\ failed' = Append(failed, "read")
          /\ UNCHANGED <<app, key, taken, dispatched>>
    /\ UNCHANGED <<elapsed, timeout, frame, term, diag, status,
                   ticked, since_tick, arrivals, listvars>>

\* if let Event::Key(key) = event::read()? { match key.code { ... } }
\* with read() returning the oldest waiting event.
ReadInput ==
    /\ pc = "read"
    /\ \/ /\ taken < Len(arrivals)
          /\ LET e == arrivals[taken + 1] IN
             /\ taken' = taken + 1
             /\ dispatched' = Append(dispatched, e)
             /\ key' = e
             /\ UNCHANGED failed
             /\ IF e = "q"
                THEN /\ res' = "Ok"
                     /\ pc' = "disable_raw"
                     /\ UNCHANGED app
                ELSE /\ app' = IF e \in KeyCodes THEN match_key(app, e) ELSE app
                     /\ pc' = "tick"
                     /\ UNCHANGED res
       \/ /\ res' = "Err"
          /\ pc' = "disable_raw"
          /\ failed' = Append(failed, "read")
          /\ UNCHANGED <<app, key, taken, dispatched>>
    /\ UNCHANGED <<elapsed, timeout, frame, term, diag, status,
                   ticked, since_tick, arrivals, listvars>>

InputNext ==
    \/ Arrive
    \/ EnableRaw
    \/ EnterAlt
    \/ TerminalNew
    \/ RunAppEntry
    \/ Draw
    \/ Timeout
    \/ PollInput
    \/ ReadInput
    \/ Tick
    \/ SkipTick
    \/ DisableRaw
    \/ LeaveAlt
    \/ ShowCursor
    \/ PrintRes

InputSpec == Init /\ [][InputNext]_vars

\* ---------------------------------------------------------------------
\* ListSpec: the StatefulList methods on arbitrary non-empty lists.

ItemSeqs == UNION {[1..n -> {"a", "b"}] : n \in 1..MaxLen}

Cursors(its) == {None} \cup {Some(i) : i \in 0..(Len(its) - 1)}

ListInit ==
    /\ ProgInit
    /\ \E its \in ItemSeqs : \E s \in Cursors(its) :
          list = [state |-> s, items |-> its]
    /\ InputIdle
    /\ ops = <<>>
    /\ hist = <<list.state>>

Call(op, result) ==
    /\ Len(ops) < MaxOps
    /\ list' = result
    /\ ops' = Append(ops, op)
    /\ hist' = Append(hist, result.state)
    /\ UNCHANGED <<progvars, inputvars>>

CallNext == Call("next", next(list))
CallPrevious == Call("previous", previous(list))
CallUnselect == Call("unselect", unselect(list))

ListNext ==
    \/ CallNext
    \/ CallPrevious
    \/ CallUnselect

ListSpec == ListInit /\ [][ListNext]_vars

\* ---------------------------------------------------------------------
\* Properties

\* The cursor the specification prescribes after next() / previous() on a
\* list of n items.
CursorAfterNext(cur, n) ==
    IF cur = None THEN Some(0)
    ELSE IF cur[1] = n - 1 THEN Some(0) ELSE Some(cur[1] + 1)

CursorAfterPrevious(cur, n) ==
    IF cur = None THEN Some(0)
    ELSE IF cur[1] = 0 THEN Some(n - 1) ELSE Some(cur[1] - 1)

\* This step is event::read() returning an event that does not end the loop.
Dispatching == pc = "read" /\ pc' = "tick"

\* C1: the cursor of the primary list and the cursor of the tab strip are
\* each absent or an index into that list's current items, in every
\* reachable state, the one right after 'm' replaced the items included.
C1_CursorsInBounds ==
    /\ \/ app.items.state = None
       \/ app.items.state[1] \in 0..(Len(app.items.items) - 1)
    /\ \/ app.titles.state = None
       \/ app.titles.state[1] \in 0..(Len(app.titles.items) - 1)

\* 'm' was just dispatched while the last row of the 3 seed items was the
\* emphasized one.
C1_Witness ==
    /\ pc = "tick"
    /\ key = "m"
    /\ frame # None
    /\ frame[1].row_selected = Some(2)
    /\ app.items.items = AltItems

\* C2: each navigation key does exactly its transition: Down, j, Tab are
\* next() on the primary list, Up, k previous() on it, u unselect() on it,
\* Left previous() on the tab strip, Right next() on the tab strip; the list
\* the key is not about, both item sequences and the rest of the program
\* state stay as they were.
C2_KeyTransitions ==
    [][Dispatching /\ key' \in MappedKeys \ {"q", "m"} =>
        /\ key' \in {"Down", "j", "Tab"} =>
              /\ app'.items.state =
                    CursorAfterNext(app.items.state, Len(app.items.items))
              /\ app'.titles = app.titles
        /\ key' \in {"Up", "k"} =>
              /\ app'.items.state =
                    CursorAfterPrevious(app.items.state, Len(app.items.items))
              /\ app'.titles = app.titles
        /\ key' = "u" =>
              /\ app'.items.state = None
              /\ app'.titles = app.titles
        /\ key' = "Left" =>
              /\ app'.titles.state =
                    CursorAfterPrevious(app.titles.state, Len(app.titles.items))
              /\ app'.items = app.items
        /\ key' = "Right" =>
              /\ app'.titles.state =
                    CursorAfterNext(app.titles.state, Len(app.titles.items))
              /\ app'.items = app.items
        /\ app'.items.items = app.items.items
        /\ app'.titles.items = app.titles.items
        /\ UNCHANGED <<res, elapsed, timeout, frame, term, diag, status>>]_vars

\* Left was just dispatched and wrapped the tab cursor from 0 to 3 while the
\* primary cursor stayed on row 1.
C2_Witness ==
    /\ pc = "tick"
    /\ key = "Left"
    /\ frame # None
    /\ frame[1].tab_selected = 0
    /\ app.titles.state = Some(3)
    /\ app.items.state = Some(1)

\* C3: a key press that is not mapped, a non-key event, a poll that times
\* out and an on_tick() call each leave both lists as they were and the loop
\* running.
C3_OnlyMappedKeysChangeState ==
    [][(\/ Dispatching /\ key' \notin MappedKeys
        \/ pc = "poll" /\ pc' = "tick"
        \/ pc = "tick")
       => /\ app' = app
          /\ res' = "none"
          /\ pc' \in LoopPcs]_vars

\* A mouse event was just read while both cursors had been moved.
C3_Witness ==
    /\ pc = "tick"
    /\ key = "Mouse"
    /\ elapsed >= TickRate
    /\ app.items.state = Some(2)
    /\ app.titles.state = Some(1)

\* C4: 'm' leaves the primary list holding exactly the 2 alternate entries
\* with no cursor, whatever it held before, and leaves the tab strip alone;
\* the cursor stays absent until another key is read, and a Tab read next
\* sets it to 0.
C4_ReplaceItems ==
    /\ [](key = "m" => app.items = [state |-> None, items |-> AltItems])
    /\ [][Dispatching /\ key' = "m" =>
            /\ Len(app'.items.items) = 2
            /\ app'.items.items[1][1] = "test"
            /\ app'.items.items[2][1] = "Testing"
            /\ app'.titles = app.titles]_vars
    /\ [][Dispatching /\ key = "m" /\ key' = "Tab" =>
            app'.items.state = Some(0)]_vars

\* Tab was just dispatched on the alternate items, drawn before it with no
\* row emphasized.
C4_Witness ==
    /\ pc = "tick"
    /\ key = "Tab"
    /\ frame # None
    /\ frame[1].rows = <<"test", "Testing">>
    /\ frame[1].row_selected = None
    /\ app.items = [state |-> Some(0), items |-> AltItems]

\* C5 as stated: on a non-empty list, from every cursor state (absent or any
\* valid index), next() followed by previous() returns the cursor to the
\* value it had before the two calls.
C5_NextThenPreviousRestores ==
    \A n \in 1..(Len(ops) - 1) :
        ops[n] = "next" /\ ops[n + 1] = "previous" => hist[n + 2] = hist[n]

\* C5 as amended: on a non-empty list, from every present cursor (any valid
\* index), next() followed by previous() returns the cursor to the value it
\* had before; from an absent cursor the two calls leave it on the last index.
C5_NextThenPreviousRestoresPresent ==
    \A n \in 1..(Len(ops) - 1) :
        ops[n] = "next" /\ ops[n + 1] = "previous" =>
            IF hist[n] # None
            THEN hist[n + 2] = hist[n]
            ELSE hist[n + 2] = Some(Len(list.items) - 1)

\* next() wrapped from the last of 3 items to 0 and previous() went back.
C5_Witness ==
    /\ Len(list.items) = 3
    /\ ops = <<"next", "previous">>
    /\ hist = <<Some(2), Some(0), Some(2)>>

\* C6: on a list of n >= 1 items with no cursor, the k-th of k consecutive
\* next() calls leaves the cursor on (k - 1) mod n: 0, 1, ..., n-1 in that
\* order, then 0 again.
C6_NextCycles ==
    (Len(hist) > 0 /\ hist[1] = None) =>
        \A k \in 1..Len(ops) :
            (\A j \in 1..k : ops[j] = "next") =>
                hist[k + 1] = Some((k - 1) % Len(list.items))

\* Four next() calls on 3 items from no cursor: 0, 1, 2 and the wrap to 0.
C6_Witness ==
    /\ Len(list.items) = 3
    /\ ops = <<"next", "next", "next", "next">>
    /\ hist = <<None, Some(0), Some(1), Some(2), Some(0)>>

\* C7: a key that calls next() or previous() on a list whose cursor is absent
\* sets that cursor to 0 (previous() does not go to the last index); so a
\* next() or previous() key read right after 'u' leaves the primary cursor
\* on 0, whatever it was before the 'u'.
C7_AbsentToZero ==
    [][Dispatching =>
        /\ (key' \in {"Down", "j", "Tab", "Up", "k"} /\ app.items.state = None)
              => app'.items.state = Some(0)
        /\ (key' \in {"Left", "Right"} /\ app.titles.state = None)
              => app'.titles.state = Some(0)
        /\ (key = "u" /\ key' \in {"Down", "j", "Tab", "Up", "k"})
              => app'.items.state = Some(0)]_vars

\* 'k' was just dispatched on the 3 seed items, drawn before it with no row
\* emphasized, which only 'u' brings about.
C7_Witness ==
    /\ pc = "tick"
    /\ key = "k"
    /\ frame # None
    /\ frame[1].rows = <<"Item0", "Item1", "Item2">>
    /\ frame[1].row_selected = None
    /\ app.items.state = Some(0)

\* C8: when the loop is about to draw its first frame the primary list holds
\* the 3 seed entries with cursor 0, the tab strip the 4 seed entries with no
\* cursor, and no event has been read; that first frame shows exactly this;
\* on the seed entries Down moves the cursor 0 -> 1 -> 2 -> 0, and nothing
\* between two key reads moves it.
C8_FirstFrame ==
    /\ [](pc = "draw" /\ frame = None =>
            /\ app.items = [state |-> Some(0), items |-> SeedItems]
            /\ app.titles = [state |-> None, items |-> SeedTitles]
            /\ key = "none")
    /\ [][frame = None /\ frame' # None =>
            /\ frame'[1].rows = <<"Item0", "Item1", "Item2">>
            /\ frame'[1].row_selected = Some(0)
            /\ frame'[1].tabs = <<"Test0", "Test1", "Test2", "Test3">>]_vars
    /\ [][Dispatching /\ key' = "Down" /\ app.items.items = SeedItems
              /\ app.items.state # None =>
            /\ app.items.state = Some(0) => app'.items.state = Some(1)
            /\ app.items.state = Some(1) => app'.items.state = Some(2)
            /\ app.items.state = Some(2) => app'.items.state = Some(0)]_vars
    /\ [][pc # "read" => app' = app \/ pc = "run_app"]_vars

\* The third Down was just dispatched: the frame before it showed row 2 of
\* the seed entries and the cursor is back on 0.
C8_Witness ==
    /\ pc = "tick"
    /\ key = "Down"
    /\ frame # None
    /\ frame[1].row_selected = Some(2)
    /\ app.items = [state |-> Some(0), items |-> SeedItems]

\* C9: run_app has returned Ok exactly when 'q' has been read; reading 'q'
\* ends the loop at once with Ok; only 'q' or an I/O error ends the loop;
\* once run_app has returned nothing is drawn, read or ticked and the lists
\* stay as they were.
C9_QuitEndsLoop ==
    /\ [](res = "Ok" <=> key = "q")
    /\ [][pc = "read" /\ key' = "q" => res' = "Ok" /\ pc' = "disable_raw"]_vars
    /\ [][(pc \in LoopPcs /\ pc' \notin LoopPcs) =>
            (res' = "Err" \/ (pc = "read" /\ key' = "q" /\ res' = "Ok"))]_vars
    /\ [][res # "none" =>
            /\ pc' \notin LoopPcs
            /\ UNCHANGED <<app, key, res, frame, elapsed, timeout>>]_vars

\* The program has exited after 'q' was read on the replaced list.
C9_Witness ==
    /\ pc = "exited"
    /\ res = "Ok"
    /\ key = "q"
    /\ app.items = [state |-> Some(1), items |-> AltItems]
    /\ app.titles.state = Some(2)

\* C10: when the process has exited and no set-up or tear-down step failed,
\* the exit status is 0 if the loop ended with the quit key, and a diagnostic
\* was printed and the exit status is not 0 if the loop returned an I/O error.
C10_ExitStatus ==
    (pc = "exited" /\ diag # Some("stderr")) =>
        /\ res = "Ok" => status = Some(0)
        /\ res = "Err" => diag = Some("stdout") /\ status # Some(0)

\* C11: when the process has exited, raw mode is off, the alternate screen
\* is left, mouse capture is off and the cursor is visible, whichever step
\* failed or succeeded before; and while run_app's loop runs, raw mode, the
\* alternate screen and mouse capture are all on.
C11_TerminalRestoredOnExit ==
    /\ pc = "exited" =>
          /\ ~term.raw
          /\ ~term.alt
          /\ ~term.mouse
          /\ term.cursor
    /\ pc \in LoopPcs =>
          /\ term.raw
          /\ term.alt
          /\ term.mouse

\* C12: a draw, poll or read that fails ends the loop in that very step with
\* Err and changes neither list, the last key nor the frame; once run_app has
\* returned Err nothing more is drawn, read, dispatched or ticked.
C12_IoErrorEndsLoop ==
    /\ [](\A n \in 1..Len(failed) :
             failed[n] \in {"draw", "poll", "read"} =>
                 res = "Err" /\ pc \notin LoopPcs)
    /\ [][(pc \in LoopPcs /\ failed' # failed) =>
            /\ res' = "Err"
            /\ pc' = "disable_raw"
            /\ UNCHANGED <<app, key, frame>>]_vars
    /\ [][res = "Err" =>
            /\ pc' \notin LoopPcs
            /\ ~(ticked' /\ ~ticked)
            /\ UNCHANGED <<app, key, frame, res>>]_vars

\* event::poll failed after a Down had moved the primary cursor, and the
\* program has exited.
C12_Witness ==
    /\ pc = "exited"
    /\ res = "Err"
    /\ failed = <<"poll">>
    /\ key = "Down"
    /\ app.items.state = Some(1)

\* C13: every iteration that does not end the loop reaches the tick check,
\* after a timeout as well as after an event; a tick check reached one
\* interval or more after the last on_tick() invokes on_tick(), so each
\* iteration starts less than one interval after the last on_tick(); and the
\* poll never waits beyond the moment the interval is over.
C13_TickEveryInterval ==
    /\ [][(pc \in {"poll", "read"} /\ pc' \in LoopPcs) =>
            \/ pc = "poll" /\ pc' \in {"read", "tick"}
            \/ pc = "read" /\ pc' = "tick"]_vars
    /\ [][(pc = "tick" /\ since_tick >= TickRate) =>
            ticked' /\ since_tick' = 0]_vars
    /\ [](pc = "draw" => since_tick < TickRate)
    /\ [][pc = "poll" =>
            /\ since_tick' - since_tick <= TickRate
            /\ since_tick' <= TickRate \/ since_tick' = since_tick]_vars

\* on_tick() was invoked in an iteration whose event changed the primary
\* cursor: the frame on the screen is older than the state.
C13_Witness ==
    /\ pc = "draw"
    /\ ticked
    /\ key = "Down"
    /\ frame # None
    /\ frame[1].row_selected = Some(0)
    /\ app.items.state = Some(1)

\* C17: at every poll the timeout is tick_rate minus the time since the last
\* tick, floored at 0: never negative, never above tick_rate, 0 once the
\* interval is over; and the poll returns within that timeout.
C17_TimeoutBounded ==
    /\ [](pc = "poll" =>
            /\ timeout >= 0
            /\ timeout <= TickRate
            /\ elapsed >= TickRate => timeout = 0
            /\ elapsed < TickRate => timeout + elapsed = TickRate)
    /\ [][(pc = "poll" /\ pc' \in LoopPcs) =>
            /\ elapsed' >= elapsed
            /\ elapsed' - elapsed <= timeout]_vars

\* A slow draw took the loop past the interval: the poll gets timeout 0.
C17_Witness ==
    /\ pc = "poll"
    /\ elapsed > TickRate
    /\ timeout = 0

\* C18: on_tick() is invoked only at the tick check, only when a full
\* interval has passed since the previous on_tick() (or since the loop
\* started), not before the tick check of an iteration, and the invocation
\* sets the time since the last tick back to 0.
C18_TicksOneIntervalApart ==
    /\ [][(ticked' /\ ~ticked) =>
            /\ pc = "tick"
            /\ pc' = "draw"
            /\ since_tick >= TickRate
            /\ elapsed' = 0]_vars
    /\ [](pc \in {"timeout", "poll", "read", "tick"} => ~ticked)

\* on_tick() was just invoked, in an iteration that started after Right had
\* moved the tab cursor to 1.
C18_Witness ==
    /\ pc = "draw"
    /\ ticked
    /\ elapsed = 0
    /\ key = "Right"
    /\ app.titles.state = Some(1)

\* C15: every frame drawn emphasizes the tab under the tab strip's cursor,
\* tab 0 when that cursor is absent, and the row under the primary list's
\* cursor, no row when that cursor is absent; as long as no tab key has set
\* the tab cursor, the frame on the screen emphasizes tab 0.
C15_FrameHighlights ==
    /\ [][(pc = "draw" /\ pc' = "timeout") =>
            /\ frame' # None
            /\ app.titles.state # None =>
                  frame'[1].tab_selected = app.titles.state[1]
            /\ app.titles.state = None => frame'[1].tab_selected = 0
            /\ app.items.state # None =>
                  frame'[1].row_selected = Some(app.items.state[1])
            /\ app.items.state = None => frame'[1].row_selected = None]_vars
    /\ []((frame # None /\ app.titles.state = None) =>
            frame[1].tab_selected = 0)

\* A frame was drawn with neither cursor set (after 'u', before any tab
\* key): tab 0 emphasized, no row emphasized.
C15_Witness ==
    /\ pc = "timeout"
    /\ key = "u"
    /\ app.titles.state = None
    /\ app.items.state = None
    /\ frame # None
    /\ frame[1].tab_selected = 0
    /\ frame[1].row_selected = None

C19_ListsNeverEmpty ==
    /\ [](/\ app.items.items \in {SeedItems, AltItems}
          /\ Len(app.items.items) \in {2, 3}
          /\ app.titles.items = SeedTitles
          /\ Len(app.titles.items) = 4)
    /\ [][Dispatching =>
            /\ key' \in {"Down", "j", "Tab", "Up", "k"} =>
                  Len(app.items.items) - 1 >= 0
            /\ key' \in {"Left", "Right"} =>
                  Len(app.titles.items) - 1 >= 0]_vars

\* Up was just dispatched on the 2 alternate items with the cursor on row 0
\* and wrapped it to len - 1 = 1.
C19_Witness ==
    /\ pc = "tick"
    /\ key = "Up"
    /\ frame # None
    /\ frame[1].rows = <<"test", "Testing">>
    /\ frame[1].row_selected = Some(0)
    /\ app.items = [state |-> Some(1), items |-> AltItems]

\* C20: once the primary list holds the alternate items it holds them in
\* every later state, and it holds them whenever the last key read is 'm';
\* an 'm' read right after an 'm' leaves the state as it was.
C20_ReplaceIsFinal ==
    /\ [][app.items.items = AltItems => app'.items.items = AltItems]_vars
    /\ [](key = "m" => app.items.items = AltItems)
    /\ [][(Dispatching /\ key = "m" /\ key' = "m") => app' = app]_vars

\* 'm' was just dispatched while the screen showed the alternate items with
\* the cursor on row 1: the items stay and the cursor is cleared again.
C20_Witness ==
    /\ pc = "tick"
    /\ key = "m"
    /\ frame # None
    /\ frame[1].rows = <<"test", "Testing">>
    /\ frame[1].row_selected = Some(1)
    /\ app.items = [state |-> None, items |-> AltItems]

\* The frame f shows the lists of a: its rows and tabs are their labels and
\* its emphasized row and tab are their cursors (tab 0 for no cursor).
FrameShows(f, a) ==
    /\ Len(f.rows) = Len(a.items.items)
    /\ \A n \in 1..Len(f.rows) : f.rows[n] = a.items.items[n][1]
    /\ Len(f.tabs) = Len(a.titles.items)
    /\ \A n \in 1..Len(f.tabs) : f.tabs[n] = a.titles.items[n][1]
    /\ f.row_selected = a.items.state
    /\ f.tab_selected = (IF a.titles.state = None THEN 0 ELSE a.titles.state[1])

\* C14: the events the loop has handled are, in order, the first of the
\* events that arrived, none skipped; a step handles at most one, only at
\* the read that follows a poll, and at that moment the screen shows the
\* state exactly as the previous event left it; whenever the loop computes
\* the timeout, polls or reads, a frame of the current state is on screen.
C14_EventsInOrder ==
    /\ [](/\ Len(dispatched) <= Len(arrivals)
          /\ \A n \in 1..Len(dispatched) : dispatched[n] = arrivals[n])
    /\ [][dispatched' # dispatched =>
            /\ pc = "read"
            /\ Len(dispatched') = Len(dispatched) + 1
            /\ key' = dispatched'[Len(dispatched')]
            /\ frame # None
            /\ FrameShows(frame[1], app)]_vars
    /\ [][(pc' = "read" /\ pc # "read") => pc = "poll"]_vars
    /\ [][(pc' = "poll" /\ pc # "poll") => pc = "timeout"]_vars
    /\ [][(pc' = "timeout" /\ pc # "timeout") =>
            pc = "draw" /\ frame' # None /\ FrameShows(frame'[1], app)]_vars
    /\ [](pc \in {"timeout", "poll", "read"} =>
            frame # None /\ FrameShows(frame[1], app))

\* Down and then 'm' arrived and both have been handled, in that order.
C14_Witness ==
    /\ pc = "tick"
    /\ arrivals = <<"Down", "m">>
    /\ dispatched = <<"Down", "m">>
    /\ app.items = [state |-> None, items |-> AltItems]

====
